---------------------------- MODULE Spec2Model ----------------------------
(***************************************************************************)
(* A model of notion_paper_archive.py: the command line entry point, the   *)
(* page query loop, the per-record reconciliation (title extraction,       *)
(* missing-field detection, metadata lookup, payload construction, PATCH), *)
(* the typed-value constructors and the citation formatter.                *)
(*                                                                         *)
(* Python values are tagged records, so that None, "" and [] stay three    *)
(* different values.  A Python str is a run-length encoded sequence of     *)
(* characters, <<[c |-> "x", n |-> 1000], [c |-> " ", n |-> 1]>>, always    *)
(* kept normalised (adjacent runs carry different characters, n >= 1), so  *)
(* equality of the encodings is equality of the strings and strings longer *)
(* than the 1800-character segment width stay representable.               *)
(***************************************************************************)
EXTENDS Integers, Sequences, FiniteSets, TLC

VARIABLES tx, ct, rc, cli, proc, pair

vars == <<tx, ct, rc, cli, proc, pair>>

(***************************************************************************)
(* Python values                                                           *)
(***************************************************************************)
NoneV == [k |-> "None"]

StrV(t) == [k |-> "str", s |-> t]

ListV(l) == [k |-> "list", l |-> l]

IntV(i) == [k |-> "int", i |-> i]

DictV(d) == [k |-> "dict", d |-> d]

\* bool(value): None, "", [], 0 and {} are falsy
Truthy(v) ==
    CASE v.k = "None" -> FALSE
      [] v.k = "str"  -> v.s # <<>>
      [] v.k = "list" -> v.l # <<>>
      [] v.k = "int"  -> v.i # 0
      [] v.k = "dict" -> DOMAIN v.d # {}

Min(a, b) == IF a <= b THEN a ELSE b

(***************************************************************************)
(* Strings                                                                 *)
(***************************************************************************)
\* str.isspace() for the characters of the model's alphabet
IsSpace(c) == c \in {" ", "\n", "\t"}

\* one character appended to a normalised text
AppendRun(t, r) ==
    IF r.n = 0 THEN t
    ELSE IF t # <<>> /\ t[Len(t)].c = r.c
         THEN [t EXCEPT ![Len(t)].n = @ + r.n]
         ELSE Append(t, r)

\* a + b: the two runs that meet become one when they carry the same character
Cat(a, b) == IF b = <<>> THEN a ELSE AppendRun(a, b[1]) \o Tail(b)

RECURSIVE Lit(_)
\* a string literal, written as the sequence of its characters
Lit(chars) ==
    IF chars = <<>> THEN <<>>
    ELSE IF Len(chars) = 1 THEN <<[c |-> chars[1], n |-> 1]>>
    ELSE LET h == Len(chars) \div 2
         IN  Cat(Lit(SubSeq(chars, 1, h)), Lit(SubSeq(chars, h + 1, Len(chars))))

RECURSIVE TLen(_)
\* len(s)
TLen(t) == IF t = <<>> THEN 0 ELSE t[1].n + TLen(Tail(t))

RECURSIVE LStrip(_)
LStrip(t) == IF t # <<>> /\ IsSpace(t[1].c) THEN LStrip(Tail(t)) ELSE t

RECURSIVE RStrip(_)
RStrip(t) ==
    IF t # <<>> /\ IsSpace(t[Len(t)].c) THEN RStrip(SubSeq(t, 1, Len(t) - 1)) ELSE t

\* str.strip()
Strip(t) == RStrip(LStrip(t))

RECURSIVE Take(_, _)
\* s[:k]
Take(t, k) ==
    IF t = <<>> \/ k <= 0 THEN <<>>
    ELSE IF t[1].n <= k THEN <<t[1]>> \o Take(Tail(t), k - t[1].n)
         ELSE <<[c |-> t[1].c, n |-> k]>>

RECURSIVE Drop(_, _)
\* s[k:]
Drop(t, k) ==
    IF t = <<>> \/ k <= 0 THEN t
    ELSE IF t[1].n <= k THEN Drop(Tail(t), k - t[1].n)
         ELSE <<[c |-> t[1].c, n |-> t[1].n - k]>> \o Tail(t)

RECURSIVE Join(_, _)
\* sep.join(parts)
Join(parts, sep) ==
    IF parts = <<>> THEN <<>>
    ELSE IF Len(parts) = 1 THEN parts[1]
         ELSE Cat(Cat(parts[1], sep), Join(Tail(parts), sep))

RECURSIVE Concat(_)
\* "".join(parts)
Concat(parts) == IF parts = <<>> THEN <<>> ELSE Cat(parts[1], Concat(Tail(parts)))

RECURSIVE Digits(_)
Digits(i) ==
    LET d == <<"0", "1", "2", "3", "4", "5", "6", "7", "8", "9">>[(i % 10) + 1]
    IN  IF i < 10 THEN Lit(<<d>>) ELSE Cat(Digits(i \div 10), Lit(<<d>>))

\* str(i) of a non-negative int, as an f-string formats it
IntToStr(i) == Digits(i)

RECURSIVE SplitAt(_, _, _)
\* s.split(sep) for a one-character separator: cur is the part being read
SplitAt(t, sep, cur) ==
    IF t = <<>> THEN <<cur>>
    ELSE IF t[1].c = sep
         THEN <<cur>> \o SplitAt(AppendRun(<<>>, [c |-> sep, n |-> t[1].n - 1]) \o Tail(t), sep, <<>>)
         ELSE SplitAt(Tail(t), sep, AppendRun(cur, t[1]))

Split(t, sep) == SplitAt(t, sep, <<>>)

(***************************************************************************)
(* textwrap.wrap(text, width), with the library's defaults:                *)
(* replace_whitespace, drop_whitespace and break_long_words are on.        *)
(* The alphabet holds no hyphen and no tab, so break_on_hyphens and        *)
(* expand_tabs have nothing to act on.                                     *)
(***************************************************************************)
WrapWidth == 1800

RECURSIVE Munge(_)
\* TextWrapper._munge_whitespace: every whitespace character becomes a space
Munge(t) ==
    IF t = <<>> THEN <<>>
    ELSE IF Len(t) = 1 THEN <<[c |-> IF IsSpace(t[1].c) THEN " " ELSE t[1].c, n |-> t[1].n]>>
    ELSE LET h == Len(t) \div 2
         IN  Cat(Munge(SubSeq(t, 1, h)), Munge(SubSeq(t, h + 1, Len(t))))

RECURSIVE WordEnd(_, _)
\* the number of leading runs of t, from position k on, that hold no whitespace
WordEnd(t, k) == IF k <= Len(t) /\ ~IsSpace(t[k].c) THEN WordEnd(t, k + 1) ELSE k - 1

RECURSIVE SplitChunks(_)
\* TextWrapper._split: words and runs of whitespace, in order
SplitChunks(t) ==
    IF t = <<>> THEN <<>>
    ELSE IF IsSpace(t[1].c) THEN <<<<t[1]>>>> \o SplitChunks(Tail(t))
         ELSE LET e == WordEnd(t, 1)
              IN  <<SubSeq(t, 1, e)>> \o SplitChunks(SubSeq(t, e + 1, Len(t)))

\* chunk.strip() == ''
IsBlank(chunk) == Strip(chunk) = <<>>

RECURSIVE FillLine(_, _, _, _)
\* the inner loop of _wrap_chunks: chunks move to the line while they fit
FillLine(chunks, cur, curLen, width) ==
    IF chunks # <<>> /\ curLen + TLen(chunks[1]) <= width
    THEN FillLine(Tail(chunks), Append(cur, chunks[1]), curLen + TLen(chunks[1]), width)
    ELSE [cur |-> cur, len |-> curLen, rest |-> chunks]

\* TextWrapper._handle_long_word with break_long_words: the chunk is cut at
\* the space left on the line
HandleLongWord(f, width) ==
    IF f.rest # <<>> /\ TLen(f.rest[1]) > width
    THEN LET spaceLeft == width - f.len
         IN  [cur  |-> Append(f.cur, Take(f.rest[1], spaceLeft)),
              rest |-> <<Drop(f.rest[1], spaceLeft)>> \o Tail(f.rest)]
    ELSE [cur |-> f.cur, rest |-> f.rest]

RECURSIVE WrapChunks(_, _, _)
\* TextWrapper._wrap_chunks
WrapChunks(chunks, lines, width) ==
    IF chunks = <<>> THEN lines
    ELSE LET c1 == IF IsBlank(chunks[1]) /\ lines # <<>> THEN Tail(chunks) ELSE chunks
             h  == HandleLongWord(FillLine(c1, <<>>, 0, width), width)
             cur == IF h.cur # <<>> /\ IsBlank(h.cur[Len(h.cur)])
                    THEN SubSeq(h.cur, 1, Len(h.cur) - 1)
                    ELSE h.cur
         IN  WrapChunks(h.rest, IF cur # <<>> THEN Append(lines, Concat(cur)) ELSE lines, width)

Wrap(text, width) == WrapChunks(SplitChunks(Munge(text)), <<>>, width)

(***************************************************************************)
(* build_rich_text                                                         *)
(***************************************************************************)
CommaSpace == Lit(<<",", " ">>)

\* the list of segment contents build_rich_text returns
build_rich_text(value) ==
    LET v == IF value.k = "list" THEN StrV(Join(value.l, CommaSpace)) ELSE value
    IN  IF v.k = "None" THEN <<>>
        ELSE LET text == Strip(v.s)
             IN  IF text = <<>> THEN <<>>
                 ELSE LET chunks == Wrap(text, WrapWidth)
                      IN  IF chunks # <<>> THEN chunks ELSE <<text>>

(***************************************************************************)
(* format_citation                                                         *)
(***************************************************************************)
MainAuthors == 3

\* author_text with the comparison off by one: " et al." already after three
\* authors
author_text_early_et_al(authors) ==
    LET main_authors == SubSeq(authors, 1, Min(MainAuthors, Len(authors)))
    IN  IF main_authors = <<>> THEN Lit(<<"U", "n", "k", "n", "o", "w", "n">>)
        ELSE IF Len(authors) < MainAuthors THEN Join(main_authors, CommaSpace)
             ELSE Cat(Join(main_authors, CommaSpace), Lit(<<" ", "e", "t", " ", "a", "l", ".">>))

\* authors[:3] joined, "Unknown" for none, " et al." after more than three
author_text(authors) ==
    LET main_authors == SubSeq(authors, 1, Min(MainAuthors, Len(authors)))
    IN  IF main_authors = <<>> THEN Lit(<<"U", "n", "k", "n", "o", "w", "n">>)
        ELSE IF Len(authors) <= MainAuthors THEN Join(main_authors, CommaSpace)
             ELSE Cat(Join(main_authors, CommaSpace), Lit(<<" ", "e", "t", " ", "a", "l", ".">>))

format_citation(title, authors, year, venue) ==
    IF ~Truthy(title) THEN NoneV
    ELSE LET venue_part == IF Truthy(venue)
                           THEN Cat(Cat(Lit(<<" ">>), venue.s), Lit(<<".">>))
                           ELSE <<>>
             year_part  == IF Truthy(year)
                           THEN Cat(Cat(Lit(<<" ", "(">>), IntToStr(year.i)), Lit(<<")">>))
                           ELSE <<>>
         IN  StrV(Strip(Concat(<<author_text(authors), year_part, Lit(<<".", " ">>),
                                 title.s, Lit(<<".">>), venue_part>>)))

(***************************************************************************)
(* Notion properties.  A property {"type": T, T: value} is                 *)
(* [k |-> "prop", type |-> T, value |-> value]; value is NoneV (null), a   *)
(* ListV of segment contents (title, rich_text) or of tag names            *)
(* (multi_select), a DictV with a start (date) or an IntV (number).        *)
(***************************************************************************)
Prop(type, value) == [k |-> "prop", type |-> type, value |-> value]

\* dict.get(key)
Get(d, key) == IF key \in DOMAIN d THEN d[key] ELSE NoneV

\* d[key] = value
Put(d, key, value) == [x \in DOMAIN d \cup {key} |-> IF x = key THEN value ELSE d[x]]

EmptyDict == [x \in {} |-> NoneV]

property_has_value(prop) ==
    LET value == prop.value
    IN  IF value.k = "None" THEN FALSE
        ELSE IF prop.type \in {"title", "rich_text", "multi_select"} THEN Truthy(value)
        ELSE IF prop.type = "date" THEN Truthy(Get(value.d, "start"))
        ELSE FALSE

MaxTags == 100

RECURSIVE StripNonEmpty(_)
\* [part.strip() for part in parts if part.strip()]
StripNonEmpty(parts) ==
    IF parts = <<>> THEN <<>>
    ELSE (IF Strip(parts[1]) # <<>> THEN <<Strip(parts[1])>> ELSE <<>>)
         \o StripNonEmpty(Tail(parts))

\* value in (None, "")
IsNoneOrEmptyStr(value) == value.k = "None" \/ (value.k = "str" /\ value.s = <<>>)

\* the {type: value} update for the property, or NoneV
build_property_value(prop, value) ==
    IF IsNoneOrEmptyStr(value) THEN NoneV
    ELSE IF prop.k = "None" THEN NoneV
    ELSE IF prop.type = "rich_text" THEN Prop("rich_text", ListV(build_rich_text(value)))
    ELSE IF prop.type = "title" THEN Prop("title", ListV(build_rich_text(value)))
    ELSE IF prop.type = "multi_select"
         THEN LET values == IF value.k = "str"
                            THEN StripNonEmpty(Split(value.s, ","))
                            ELSE value.l
              IN  Prop("multi_select", ListV(SubSeq(values, 1, Min(MaxTags, Len(values)))))
    ELSE IF prop.type = "date" /\ value.k = "str"
         THEN Prop("date", DictV([start |-> value]))
    ELSE NoneV

(***************************************************************************)
(* NotionPaperArchive: a page is [properties |-> name :> property]; props  *)
(* is the PropertyConfig, an untracked role's name being "" (None and ""   *)
(* are both falsy, which is all the code asks of them).                    *)
(***************************************************************************)
Roles == <<"authors", "published", "venue", "citation", "abstract">>

\* the metadata key each role is filled from (lines 152-162)
MetaKey(role) ==
    CASE role = "authors"   -> "authors"
      [] role = "published" -> "publication_date"
      [] role = "venue"     -> "venue"
      [] role = "citation"  -> "citation"
      [] role = "abstract"  -> "abstract"

DefaultProps ==
    [title |-> "Name", authors |-> "Author", published |-> "Year", venue |-> "Venue",
     citation |-> "Citation", abstract |-> "Abstract"]

\* the stripped title, "" when the property is absent or not a title
extract_title(page, props) ==
    LET title_prop == Get(page.properties, props.title)
    IN  IF title_prop.k = "None" THEN <<>>
        ELSE IF title_prop.type # "title" THEN <<>>
        ELSE Strip(Concat(title_prop.value.l))

RECURSIVE MissingFrom(_, _, _)
MissingFrom(page, props, r) ==
    IF r > Len(Roles) THEN <<>>
    ELSE LET prop_name == props[Roles[r]]
             prop      == Get(page.properties, prop_name)
             here      == IF prop_name = "" THEN <<>>
                          ELSE IF prop.k = "None" THEN <<>>
                          ELSE IF ~property_has_value(prop) THEN <<prop_name>>
                          ELSE <<>>
         IN  here \o MissingFrom(page, props, r + 1)

RECURSIVE MissingOrAbsentFrom(_, _, _)
MissingOrAbsentFrom(page, props, r) ==
    IF r > Len(Roles) THEN <<>>
    ELSE LET prop_name == props[Roles[r]]
             prop      == Get(page.properties, prop_name)
             here      == IF prop_name = "" THEN <<>>
                          ELSE IF prop.k = "None" THEN <<prop_name>>
                          ELSE IF ~property_has_value(prop) THEN <<prop_name>>
                          ELSE <<>>
         IN  here \o MissingOrAbsentFrom(page, props, r + 1)

\* _missing_fields without the test that the record has the field: a field
\* the record lacks counts as missing
missing_fields_or_absent(page, props) == MissingOrAbsentFrom(page, props, 1)

missing_fields(page, props) == MissingFrom(page, props, 1)

\* maybe_set without the property_has_value test: a field that holds a value
\* is set again
maybe_set_overwriting(payload, properties, prop_name, raw) ==
    IF prop_name = "" THEN payload
    ELSE LET prop == Get(properties, prop_name)
         IN  IF prop.k = "None" THEN payload
             ELSE LET value == build_property_value(Get(properties, prop_name), raw)
                  IN  IF value.k = "None" THEN payload
                      ELSE Put(payload, prop_name, value)

\* the closure maybe_set of _build_update_payload, on the payload so far
maybe_set(payload, properties, prop_name, raw) ==
    IF prop_name = "" THEN payload
    ELSE LET prop == Get(properties, prop_name)
         IN  IF prop.k = "None" THEN payload
             ELSE IF property_has_value(prop) THEN payload
             ELSE LET value == build_property_value(Get(properties, prop_name), raw)
                  IN  IF value.k = "None" THEN payload
                      ELSE Put(payload, prop_name, value)

RECURSIVE PayloadFrom(_, _, _, _, _)
PayloadFrom(payload, page, props, metadata, r) ==
    IF r > Len(Roles) THEN payload
    ELSE PayloadFrom(maybe_set(payload, page.properties, props[Roles[r]],
                               metadata[MetaKey(Roles[r])]),
                     page, props, metadata, r + 1)

build_update_payload(page, props, metadata) ==
    PayloadFrom(EmptyDict, page, props, metadata, 1)

\* what a successful PATCH /v1/pages/{id} with {"properties": payload} leaves
patched(page, payload) ==
    [page EXCEPT !.properties =
        [x \in DOMAIN page.properties |->
            IF x \in DOMAIN payload THEN payload[x] ELSE page.properties[x]]]

(***************************************************************************)
(* fetch_metadata.  The response of the search call is                     *)
(* [kind |-> "raise"] (requests.get raises: no connection, timeout),       *)
(* [kind |-> "status"] (response.ok is false) or                           *)
(* [kind |-> "json", data |-> papers]; the result says whether the call    *)
(* raised and what it returned.                                            *)
(***************************************************************************)
RECURSIVE AuthorNames(_)
\* [a["name"].strip() for a in authors if a["name"]]
AuthorNames(authors) ==
    IF authors = <<>> THEN <<>>
    ELSE (IF Truthy(authors[1]) THEN <<Strip(authors[1].s)>> ELSE <<>>)
         \o AuthorNames(Tail(authors))

Jan1 == Lit(<<"-", "0", "1", "-", "0", "1">>)

paper_metadata(paper) ==
    LET authors == AuthorNames(paper.authors)
        \* "publicationVenue" is not among the requested fields: the second
        \* operand of the or is None
        venue   == IF Truthy(paper.venue) THEN paper.venue ELSE NoneV
        year    == paper.year
        publication_date ==
            IF Truthy(paper.publicationDate) THEN paper.publicationDate
            ELSE IF Truthy(year) THEN StrV(Cat(IntToStr(year.i), Jan1))
            ELSE NoneV
    IN  [k |-> "dict",
         title |-> paper.title, authors |-> ListV(authors), venue |-> venue, year |-> year,
         publication_date |-> publication_date,
         citation |-> format_citation(paper.title, authors, year, venue),
         abstract |-> paper.abstract]

fetch_metadata(title, response) ==
    IF response.kind = "raise" THEN [raised |-> TRUE, value |-> NoneV]
    ELSE IF response.kind = "status" THEN [raised |-> FALSE, value |-> NoneV]
    ELSE IF response.data = <<>> THEN [raised |-> FALSE, value |-> NoneV]
    ELSE [raised |-> FALSE, value |-> paper_metadata(response.data[1])]

(***************************************************************************)
(* The program: main, parse_args and NotionPaperArchive.run.  A process    *)
(* state p holds the position (pc), what parse_args returned, the list     *)
(* pages, the loop index i and the counter updated, and, as a record of    *)
(* the calls issued, queries (page queries sent), lookups (search calls),  *)
(* plans (the payloads logged by "Updating ...") and writes (PATCH calls). *)
(* A page's id is its position in pages.                                   *)
(***************************************************************************)
NOTION_DATABASE_ID == " "

NOTION_TOKEN == " "

NewProcess ==
    [pc |-> "start", database_id |-> "", token |-> "", dry_run |-> FALSE,
     pages |-> <<>>, queries |-> 0, i |-> 1, lookups |-> <<>>, plans |-> <<>>,
     writes |-> <<>>, updated |-> 0, failed |-> "none"]

\* parse_args and the construction of the archive in main; argv gives each
\* option as <<>> (not on the command line) or <<value>>
parse_args(p, argv) ==
    LET database_id  == IF argv.database_id = <<>> THEN NOTION_DATABASE_ID
                        ELSE argv.database_id[1]
        notion_token == IF argv.notion_token = <<>> THEN NOTION_TOKEN
                        ELSE argv.notion_token[1]
    IN  IF database_id = "" THEN [p EXCEPT !.pc = "usage_error"]
        ELSE IF notion_token = "" THEN [p EXCEPT !.pc = "usage_error"]
        ELSE [p EXCEPT !.pc = "query", !.database_id = database_id,
                       !.token = notion_token, !.dry_run = argv.dry_run]

\* _iter_pages taking a failed query for the end of the pages instead of
\* raising
iter_pages_tolerant(p, response) ==
    IF ~response.ok
    THEN [p EXCEPT !.queries = @ + 1, !.pc = "loop", !.failed = "query"]
    ELSE [p EXCEPT !.queries = @ + 1, !.pages = @ \o response.results,
                   !.pc = IF response.has_more THEN "query" ELSE "loop"]

\* one round of the loop of _iter_pages, which list() drives to its end
\* before the loop of run starts
iter_pages(p, response) ==
    IF ~response.ok
    THEN [p EXCEPT !.queries = @ + 1, !.pc = "crashed", !.failed = "query"]
    ELSE [p EXCEPT !.queries = @ + 1, !.pages = @ \o response.results,
                   !.pc = IF response.has_more THEN "query" ELSE "loop"]

\* the loop body of run with the dry_run test moved up, before the lookup
run_iteration_dry_first(p, props, response, patch_ok) ==
    LET page    == p.pages[p.i]
        title   == extract_title(page, props)
        next    == [p EXCEPT !.i = @ + 1]
        found   == fetch_metadata(title, response)
        looked  == [next EXCEPT !.lookups =
                       Append(@, [id |-> p.i, title |-> title, outcome |-> response.kind])]
        payload == build_update_payload(page, props, found.value)
        planned == [looked EXCEPT !.plans = Append(@, [id |-> p.i, payload |-> payload])]
        sent    == [planned EXCEPT !.writes = Append(@, [id |-> p.i, payload |-> payload])]
    IN  IF title = <<>> THEN next
        ELSE IF missing_fields(page, props) = <<>> THEN next
        ELSE IF p.dry_run THEN next
        ELSE IF found.raised
             THEN [looked EXCEPT !.i = p.i, !.pc = "crashed", !.failed = "lookup"]
        ELSE IF found.value.k = "None" THEN looked
        ELSE IF DOMAIN payload = {} THEN looked
        ELSE IF ~patch_ok
             THEN [sent EXCEPT !.i = p.i, !.pc = "crashed", !.failed = "write"]
        ELSE [sent EXCEPT !.updated = @ + 1]

\* one iteration of the loop of run, on pages[i]
run_iteration(p, props, response, patch_ok) ==
    LET page    == p.pages[p.i]
        title   == extract_title(page, props)
        next    == [p EXCEPT !.i = @ + 1]
        found   == fetch_metadata(title, response)
        looked  == [next EXCEPT !.lookups =
                       Append(@, [id |-> p.i, title |-> title, outcome |-> response.kind])]
        payload == build_update_payload(page, props, found.value)
        planned == [looked EXCEPT !.plans = Append(@, [id |-> p.i, payload |-> payload])]
        sent    == [planned EXCEPT !.writes = Append(@, [id |-> p.i, payload |-> payload])]
    IN  IF title = <<>> THEN next
        ELSE IF missing_fields(page, props) = <<>> THEN next
        ELSE IF found.raised
             THEN [looked EXCEPT !.i = p.i, !.pc = "crashed", !.failed = "lookup"]
        ELSE IF found.value.k = "None" THEN looked
        ELSE IF DOMAIN payload = {} THEN looked
        ELSE IF p.dry_run THEN planned
        ELSE IF ~patch_ok
             THEN [sent EXCEPT !.i = p.i, !.pc = "crashed", !.failed = "write"]
        ELSE [sent EXCEPT !.updated = @ + 1]

\* the loop of run is over
run_end(p) == [p EXCEPT !.pc = "done"]

(***************************************************************************)
(* The environment: command lines, database contents, search responses.    *)
(***************************************************************************)
MaxRecords == 2

MaxPages == 2

MaxRuns == 3

MaxAuthors == 4

SeqsUpTo(S, k) == UNION {[1..m -> S] : m \in 0..k}

OptionValues == {<<>>, <<"">>, <<"db-or-token">>}

CommandLines == [database_id : OptionValues, notion_token : OptionValues, dry_run : BOOLEAN]

TFoo == Lit(<<"F", "o", "o">>)

TitleProp(parts) == Prop("title", ListV(parts))

EmptyText == Prop("rich_text", ListV(<<>>))

FilledText == Prop("rich_text", ListV(<<Lit(<<"u">>)>>))

EmptyTags == Prop("multi_select", ListV(<<>>))

FilledTags == Prop("multi_select", ListV(<<Lit(<<"u">>)>>))

EmptyDate == Prop("date", NoneV)

FilledDate == Prop("date", DictV([start |-> StrV(Lit(<<"2", "0", "2", "0", "-", "0", "2", "-", "0", "2">>))]))

EmptyNumber == Prop("number", NoneV)

\* a page from the properties given, NoneV standing for a property the page lacks
MkPage(fields) ==
    [properties |-> [x \in {y \in DOMAIN fields : fields[y].k # "None"} |-> fields[x]]]

PageOf(name, author, year, venue, citation, abstract) ==
    MkPage([Name |-> name, Author |-> author, Year |-> year, Venue |-> venue,
            Citation |-> citation, Abstract |-> abstract])

\* the records the database of a run may hold
RunRecords ==
    { PageOf(NoneV, EmptyTags, NoneV, NoneV, NoneV, NoneV),
      PageOf(TitleProp(<<Lit(<<" ">>)>>), EmptyTags, NoneV, NoneV, NoneV, EmptyText),
      PageOf(Prop("rich_text", ListV(<<TFoo>>)), EmptyTags, NoneV, NoneV, NoneV, NoneV),
      PageOf(TitleProp(<<TFoo>>), FilledTags, FilledDate, FilledText, NoneV, NoneV),
      PageOf(TitleProp(<<TFoo>>), EmptyTags, EmptyDate, EmptyText, EmptyText, EmptyText),
      PageOf(TitleProp(<<TFoo>>), FilledTags, EmptyNumber, NoneV, NoneV, NoneV) }

\* the records reconciliation is checked on: every one has a title
ReconcileRecords ==
    { PageOf(TitleProp(<<TFoo>>), author, year, venue, citation, abstract) :
        author   \in {NoneV, EmptyTags, FilledTags, EmptyText},
        year     \in {NoneV, EmptyDate, FilledDate, EmptyNumber},
        venue    \in {NoneV, EmptyText, FilledText},
        citation \in {NoneV, EmptyText, EmptyTags},
        abstract \in {NoneV, EmptyText, FilledText} }

\* property configurations: the default, one role untracked, none tracked,
\* and two roles sharing one field
Configs ==
    {DefaultProps}
    \cup {[DefaultProps EXCEPT ![r] = ""] : r \in {"authors", "published", "venue", "citation", "abstract"}}
    \cup {[title |-> "Name", authors |-> "", published |-> "", venue |-> "",
           citation |-> "", abstract |-> ""]}
    \cup {[DefaultProps EXCEPT !.authors = "Citation"]}

\* what the search API answers with: the fields the request names
Paper(title, authors, venue, year, publicationDate, abstract) ==
    [title |-> title, authors |-> authors, venue |-> venue, year |-> year,
     publicationDate |-> publicationDate, abstract |-> abstract]

Papers ==
    { Paper(StrV(TFoo), <<StrV(Lit(<<"A">>)), StrV(Lit(<<"B">>))>>, StrV(Lit(<<"V">>)),
            IntV(2021), NoneV, StrV(Lit(<<"x", " ", "y">>))),
      Paper(StrV(TFoo), <<>>, NoneV, NoneV, NoneV, NoneV),
      Paper(StrV(TFoo), <<StrV(Lit(<<" ">>))>>, StrV(<<>>), IntV(2019),
            StrV(Lit(<<"2", "0", "1", "9", "-", "0", "5", "-", "0", "1">>)), StrV(Lit(<<" ">>))),
      Paper(NoneV, <<StrV(Lit(<<"A">>))>>, NoneV, NoneV, NoneV, StrV(Lit(<<"x">>))) }

SearchResponses ==
    {[kind |-> "raise"], [kind |-> "status"], [kind |-> "json", data |-> <<>>]}
    \cup {[kind |-> "json", data |-> <<paper>>] : paper \in Papers}

\* the answers to a page query when the database has room for `room` more
\* records and `last` says the server has no further page to give
QueryResponses(room, last) ==
    {[ok |-> FALSE]}
    \cup {[ok |-> TRUE, results |-> r, has_more |-> h] :
            r \in SeqsUpTo(RunRecords, room), h \in IF last THEN {FALSE} ELSE BOOLEAN}

Idle == [stage |-> "idle"]

(***************************************************************************)
(* Spec: one run of the program.                                           *)
(***************************************************************************)
Init ==
    /\ cli \in CommandLines
    /\ proc = NewProcess
    /\ tx = Idle /\ ct = Idle /\ rc = Idle /\ pair = Idle

ParseArgs ==
    /\ proc.pc = "start"
    /\ proc' = parse_args(proc, cli)
    /\ UNCHANGED <<tx, ct, rc, cli, pair>>

QueryPage ==
    /\ proc.pc = "query"
    /\ proc.queries < MaxPages
    /\ \E response \in QueryResponses(MaxRecords - Len(proc.pages), proc.queries = MaxPages - 1) :
          proc' = iter_pages(proc, response)
    /\ UNCHANGED <<tx, ct, rc, cli, pair>>

RunIteration ==
    /\ proc.pc = "loop"
    /\ proc.i <= Len(proc.pages)
    /\ \E response \in SearchResponses, patch_ok \in BOOLEAN :
          proc' = run_iteration(proc, DefaultProps, response, patch_ok)
    /\ UNCHANGED <<tx, ct, rc, cli, pair>>

RunEnd ==
    /\ proc.pc = "loop"
    /\ proc.i > Len(proc.pages)
    /\ proc' = run_end(proc)
    /\ UNCHANGED <<tx, ct, rc, cli, pair>>

Next == ParseArgs \/ QueryPage \/ RunIteration \/ RunEnd

Spec == Init /\ [][Next]_vars

(***************************************************************************)
(* SpecPair: the same command line run twice, once with --dry-run and once *)
(* without, against the same database and the same search responses: each  *)
(* step hands both processes the same response.                            *)
(***************************************************************************)
InitPair ==
    /\ cli \in {c \in CommandLines : c.dry_run}
    /\ pair = [dry |-> NewProcess, real |-> NewProcess]
    /\ tx = Idle /\ ct = Idle /\ rc = Idle /\ proc = Idle

PairParseArgs ==
    /\ pair.dry.pc = "start"
    /\ pair' = [dry  |-> parse_args(pair.dry, cli),
                real |-> parse_args(pair.real, [cli EXCEPT !.dry_run = FALSE])]
    /\ UNCHANGED <<tx, ct, rc, cli, proc>>

PairQueryPage ==
    /\ pair.dry.pc = "query"
    /\ pair.dry.queries < MaxPages
    /\ \E response \in QueryResponses(MaxRecords - Len(pair.dry.pages),
                                      pair.dry.queries = MaxPages - 1) :
          pair' = [dry  |-> iter_pages(pair.dry, response),
                   real |-> IF pair.real.pc = "query"
                            THEN iter_pages(pair.real, response) ELSE pair.real]
    /\ UNCHANGED <<tx, ct, rc, cli, proc>>

PairRunIteration ==
    /\ pair.dry.pc = "loop"
    /\ pair.dry.i <= Len(pair.dry.pages)
    /\ \E response \in SearchResponses, patch_ok \in BOOLEAN :
          pair' = [dry  |-> run_iteration(pair.dry, DefaultProps, response, patch_ok),
                   real |-> IF pair.real.pc = "loop" /\ pair.real.i <= Len(pair.real.pages)
                            THEN run_iteration(pair.real, DefaultProps, response, patch_ok)
                            ELSE pair.real]
    /\ UNCHANGED <<tx, ct, rc, cli, proc>>

PairRunEnd ==
    /\ pair.dry.pc = "loop"
    /\ pair.dry.i > Len(pair.dry.pages)
    /\ pair' = [dry  |-> run_end(pair.dry),
                real |-> IF pair.real.pc = "loop" /\ pair.real.i > Len(pair.real.pages)
                         THEN run_end(pair.real) ELSE pair.real]
    /\ UNCHANGED <<tx, ct, rc, cli, proc>>

NextPair == PairParseArgs \/ PairQueryPage \/ PairRunIteration \/ PairRunEnd

SpecPair == InitPair /\ [][NextPair]_vars

(***************************************************************************)
(* SpecReconcile: _build_update_payload on a titled record, the payload    *)
(* written to the record, and _build_update_payload on the record again    *)
(* with the same metadata.  rc.runs lists each call's record and payload.  *)
(***************************************************************************)
Metadatas == {paper_metadata(paper) : paper \in Papers}

InitReconcile ==
    /\ rc \in [pc : {"reconcile"}, page : ReconcileRecords, props : Configs,
               metadata : Metadatas, runs : {<<>>}]
    /\ tx = Idle /\ ct = Idle /\ cli = Idle /\ proc = Idle /\ pair = Idle

Reconcile ==
    /\ rc.pc = "reconcile"
    /\ LET payload == build_update_payload(rc.page, rc.props, rc.metadata)
       IN  rc' = [rc EXCEPT !.runs = Append(@, [page |-> rc.page, payload |-> payload]),
                            !.pc = IF DOMAIN payload # {} /\ rc.runs = <<>>
                                   THEN "patch" ELSE "done"]
    /\ UNCHANGED <<tx, ct, cli, proc, pair>>

Patch ==
    /\ rc.pc = "patch"
    /\ rc' = [rc EXCEPT !.page = patched(rc.page, rc.runs[Len(rc.runs)].payload),
                        !.pc = "reconcile"]
    /\ UNCHANGED <<tx, ct, cli, proc, pair>>

NextReconcile == Reconcile \/ Patch

SpecReconcile == InitReconcile /\ [][NextReconcile]_vars

(***************************************************************************)
(* SpecText: build_rich_text on strings of up to MaxRuns runs of letters,  *)
(* spaces and newlines, each run of a length around the segment width.     *)
(***************************************************************************)
TextChars == {"x", "y", " ", "\n"}

RunLengths == {1, 900, 1800, 1801, 4000}

Texts ==
    {t \in SeqsUpTo([c : TextChars, n : RunLengths], MaxRuns) :
        \A j \in 1..(Len(t) - 1) : t[j].c # t[j + 1].c}

InitText ==
    /\ tx \in [stage : {"input"}, text : Texts, segments : {<<>>}]
    /\ ct = Idle /\ rc = Idle /\ cli = Idle /\ proc = Idle /\ pair = Idle

BuildRichText ==
    /\ tx.stage = "input"
    /\ tx' = [tx EXCEPT !.stage = "built", !.segments = build_rich_text(StrV(tx.text))]
    /\ UNCHANGED <<ct, rc, cli, proc, pair>>

NextText == BuildRichText

SpecText == InitText /\ [][NextText]_vars

(***************************************************************************)
(* SpecCite: format_citation on the titles, author lists, years and venues *)
(* below.  A year is None or a publication year.                           *)
(***************************************************************************)
TAttention == Lit(<<"A", "t", "t", "e", "n", "t", "i", "o", "n", " ", "I", "s", " ", "A", "l", "l", " ", "Y", "o", "u", " ", "N", "e", "e", "d">>)

TNeurIPS == Lit(<<"N", "e", "u", "r", "I", "P", "S">>)

ABCD == <<Lit(<<"A">>), Lit(<<"B">>), Lit(<<"C">>), Lit(<<"D">>)>>

CiteTitles == {NoneV, StrV(<<>>), StrV(Lit(<<"X">>)), StrV(TAttention)}

CiteAuthors == SeqsUpTo({Lit(<<"A">>), Lit(<<"B">>), <<>>}, MaxAuthors) \cup {ABCD}

CiteYears == {NoneV, IntV(2017), IntV(2020)}

CiteVenues == {NoneV, StrV(<<>>), StrV(Lit(<<"V">>)), StrV(TNeurIPS)}

InitCite ==
    /\ ct \in [stage : {"input"}, title : CiteTitles, authors : CiteAuthors,
               year : CiteYears, venue : CiteVenues, citation : {NoneV}]
    /\ tx = Idle /\ rc = Idle /\ cli = Idle /\ proc = Idle /\ pair = Idle

FormatCitation ==
    /\ ct.stage = "input"
    /\ ct' = [ct EXCEPT !.stage = "done",
                        !.citation = format_citation(ct.title, ct.authors, ct.year, ct.venue)]
    /\ UNCHANGED <<tx, rc, cli, proc, pair>>

NextCite == FormatCitation

SpecCite == InitCite /\ [][NextCite]_vars

(***************************************************************************)
(* Properties                                                              *)
(***************************************************************************)
NonTitleRoles == {"authors", "published", "venue", "citation", "abstract"}

\* the field names the configuration tracks for the five non-title roles
TrackedNames(props) == {props[r] : r \in NonTitleRoles} \ {""}

RunsOf(r) == 1..Len(r.runs)

\* C1: every key of a payload _build_update_payload builds names a field
\* that is configured for a non-title role, exists on the record and does
\* not hold a value (property_has_value) on the record the payload was
\* built from.
C1_PayloadOnlyFillsBlanks ==
    \A j \in RunsOf(rc) :
        \A key \in DOMAIN rc.runs[j].payload :
            /\ key \in TrackedNames(rc.props)
            /\ key \in DOMAIN rc.runs[j].page.properties
            /\ ~property_has_value(rc.runs[j].page.properties[key])

\* C1's case: a payload was built for a record one of whose tracked fields
\* holds a value the metadata could replace, and another of whose tracked
\* fields the record lacks.
C1_Witness ==
    /\ rc.runs # <<>>
    /\ DOMAIN rc.runs[1].payload # {}
    /\ rc.props.authors = "Author" /\ rc.props.venue = "Venue"
    /\ "Author" \in DOMAIN rc.runs[1].page.properties
    /\ property_has_value(rc.runs[1].page.properties["Author"])
    /\ Truthy(rc.metadata.authors) /\ Truthy(rc.metadata.venue)
    /\ "Venue" \notin DOMAIN rc.runs[1].page.properties

\* C2: when the first reconciliation yields a non-empty payload and the
\* payload is applied, reconciling the updated record with the same lookup
\* result yields an empty payload.
C2_SecondPayloadEmpty ==
    Len(rc.runs) = 2 => DOMAIN rc.runs[2].payload = {}

\* a raw metadata value that is empty or null: None, "", [] or a blank string
EmptyRaw(value) ==
    \/ value.k = "None"
    \/ value.k = "str" /\ Strip(value.s) = <<>>
    \/ value.k = "list" /\ value.l = <<>>

SupportedKinds == {"rich_text", "title", "multi_select", "date"}

\* C7: build_property_value yields None for an empty or null raw value and
\* for a field of unsupported kind, so no payload entry carries an empty
\* segment list, an empty tag list or a field of unsupported kind.
C7_NoEmptyPayloadEntry ==
    \A j \in RunsOf(rc) :
        /\ \A key \in DOMAIN rc.runs[j].payload :
              LET entry == rc.runs[j].payload[key]
              IN  /\ entry.type \in SupportedKinds
                  /\ entry.type \in {"rich_text", "title", "multi_select"}
                        => entry.value.l # <<>>
        /\ \A r \in NonTitleRoles :
              LET raw  == rc.metadata[MetaKey(r)]
                  prop == Get(rc.runs[j].page.properties, rc.props[r])
              IN  (prop.k # "None" /\ (EmptyRaw(raw) \/ prop.type \notin SupportedKinds))
                     => build_property_value(prop, raw) = NoneV

LookupsOf(p, id) == {j \in 1..Len(p.lookups) : p.lookups[j].id = id}

WritesOf(p, id) == {j \in 1..Len(p.writes) : p.writes[j].id = id}

\* the record's title field exists, is of kind title and is not blank
HasTitle(page) ==
    /\ "Name" \in DOMAIN page.properties
    /\ page.properties["Name"].type = "title"
    /\ Strip(Concat(page.properties["Name"].value.l)) # <<>>

\* a tracked field exists on the record and does not hold a value
HasBlankField(page) ==
    \E name \in TrackedNames(DefaultProps) :
        name \in DOMAIN page.properties /\ ~property_has_value(page.properties[name])

\* C3: run issues a lookup for a record only if its title is non-empty and
\* a tracked field that exists on it holds no value; a record without such
\* a title or with all its tracked fields populated gets no lookup and no
\* write, and every record gets at most one lookup and at most one write.
C3_LookupOnlyWhenNeeded ==
    proc.pc # "start" =>
        \A id \in 1..Len(proc.pages) :
            /\ Cardinality(LookupsOf(proc, id)) <= 1
            /\ Cardinality(WritesOf(proc, id)) <= 1
            /\ ~(HasTitle(proc.pages[id]) /\ HasBlankField(proc.pages[id]))
                  => LookupsOf(proc, id) = {} /\ WritesOf(proc, id) = {}

\* C3's case: a finished run that looked one record up and wrote it, and
\* passed over a titled record whose tracked fields all hold values.
C3_Witness ==
    /\ proc.pc = "done"
    /\ \E id \in 1..Len(proc.pages) : LookupsOf(proc, id) # {} /\ WritesOf(proc, id) # {}
    /\ \E id \in 1..Len(proc.pages) :
          /\ HasTitle(proc.pages[id]) /\ ~HasBlankField(proc.pages[id])
          /\ LookupsOf(proc, id) = {}

\* C4: no failure of the search call (a non-success status, a network error
\* or a timeout) reaches the caller: the record is skipped without a write
\* and run goes on to the next record.
C4_LookupFailureSkipsRecord ==
    proc.pc # "start" =>
        \A j \in 1..Len(proc.lookups) :
            proc.lookups[j].outcome \in {"raise", "status"} =>
                /\ proc.failed # "lookup"
                /\ proc.pc # "crashed" \/ proc.failed = "write"
                /\ proc.i > proc.lookups[j].id
                /\ WritesOf(proc, proc.lookups[j].id) = {}

\* what holds of a run a failed page query or a failed write has ended
C5_Aborted ==
    proc.pc # "start" =>
        /\ proc.failed = "query" =>
              proc.pc = "crashed" /\ proc.lookups = <<>> /\ proc.writes = <<>>
              /\ proc.updated = 0
        /\ proc.failed = "write" =>
              /\ proc.pc = "crashed"
              /\ proc.writes # <<>>
              /\ proc.writes[Len(proc.writes)].id = proc.i
              /\ Cardinality(WritesOf(proc, proc.i)) = 1
              /\ proc.updated = Len(proc.writes) - 1

\* no call follows a failed page query or a failed write
C5_NoCallAfter ==
    (proc.pc # "start" /\ proc.failed \in {"query", "write"}) =>
        /\ proc'.queries = proc.queries
        /\ proc'.lookups = proc.lookups
        /\ proc'.writes = proc.writes

\* C5: a failed page query or a failed write aborts the run: no page query,
\* lookup or write follows it, the failed write is neither retried nor
\* counted, and a failed page query, on whichever page, leaves no record
\* written.
C5_FetchOrWriteFailureAborts == []C5_Aborted /\ [][C5_NoCallAfter]_vars

\* C5's case: the query of the second page fails after the first page
\* brought a record the run would have looked up.
C5_Witness ==
    /\ proc.pc = "crashed" /\ proc.failed = "query" /\ proc.queries = 2
    /\ \E id \in 1..Len(proc.pages) :
          HasTitle(proc.pages[id]) /\ HasBlankField(proc.pages[id])

\* C6: against the same database and the same search responses a dry run
\* issues no write, and, while no write of the other run has failed, both
\* runs are at the same place, have issued the same lookups and computed
\* the same non-empty payloads for the same records, which are exactly the
\* writes the run without --dry-run has issued and counted.
C6_DryRunPreviewsRealRun ==
    pair.dry.pc # "start" =>
        /\ pair.dry.writes = <<>>
        /\ pair.dry.updated = 0
        /\ pair.real.failed # "write" =>
              /\ pair.real.pc = pair.dry.pc
              /\ pair.real.lookups = pair.dry.lookups
              /\ pair.real.plans = pair.dry.plans
              /\ pair.real.writes = pair.dry.plans
              /\ pair.real.updated = Len(pair.dry.plans)
              /\ \A j \in 1..Len(pair.dry.plans) : DOMAIN pair.dry.plans[j].payload # {}

\* C6's case: both runs are over, the run without --dry-run has written a
\* record, and one lookup led to no payload.
C6_Witness ==
    /\ pair.dry.pc = "done" /\ pair.real.pc = "done"
    /\ pair.real.writes # <<>>
    /\ Len(pair.dry.lookups) > Len(pair.dry.plans)

RECURSIVE HasSpace(_)
HasSpace(t) == t # <<>> /\ (IsSpace(t[1].c) \/ HasSpace(Tail(t)))

CeilDiv(a, b) == (a + b - 1) \div b

\* C8: the segments build_rich_text produces are each at most 1800
\* characters long, concatenated in order they are the trimmed string
\* exactly, and a string of length L without whitespace yields
\* ceil(L / 1800) of them.
C8_ChunkingRoundTrip ==
    tx.stage = "built" =>
        /\ \A j \in 1..Len(tx.segments) : TLen(tx.segments[j]) <= WrapWidth
        /\ Concat(tx.segments) = Strip(tx.text)
        /\ ~HasSpace(tx.text) => Len(tx.segments) = CeilDiv(TLen(tx.text), WrapWidth)

\* the citation the format prescribes for a non-empty title
C9_Format(title, authors, year, venue) ==
    LET first3 == IF Len(authors) > 3 THEN SubSeq(authors, 1, 3) ELSE authors
        author_clause ==
            IF Len(authors) = 0 THEN Lit(<<"U", "n", "k", "n", "o", "w", "n">>)
            ELSE IF Len(authors) > 3 THEN Cat(Join(first3, Lit(<<",", " ">>)), Lit(<<" ", "e", "t", " ", "a", "l", ".">>))
            ELSE Join(first3, Lit(<<",", " ">>))
        year_clause ==
            IF year.k = "int" THEN Concat(<<Lit(<<" ", "(">>), IntToStr(year.i), Lit(<<")">>)>>)
            ELSE <<>>
        venue_clause ==
            IF venue.k = "str" /\ venue.s # <<>> THEN Concat(<<Lit(<<" ">>), venue.s, Lit(<<".">>)>>)
            ELSE <<>>
    IN  Strip(Concat(<<author_clause, year_clause, Lit(<<".", " ">>), title, Lit(<<".">>),
                       venue_clause>>))

\* C9: format_citation returns None iff the title is empty or absent, and
\* otherwise "{authors}{year clause}. {title}.{venue clause}" trimmed; four
\* authors A, B, C, D, 2017 and NeurIPS give
\* "A, B, C et al. (2017). Attention Is All You Need. NeurIPS.".
C9_CitationFormat ==
    ct.stage = "done" =>
        /\ ct.citation = NoneV <=> (ct.title = NoneV \/ ct.title = StrV(<<>>))
        /\ (ct.title # NoneV /\ ct.title # StrV(<<>>)) =>
              ct.citation = StrV(C9_Format(ct.title.s, ct.authors, ct.year, ct.venue))
        /\ (ct.title = StrV(TAttention) /\ ct.authors = ABCD /\ ct.year = IntV(2017)
            /\ ct.venue = StrV(TNeurIPS)) =>
              ct.citation = StrV(Lit(<<"A", ",", " ", "B", ",", " ", "C", " ", "e", "t", " ", "a", "l", ".", " ", "(", "2", "0", "1", "7", ")", ".", " ", "A", "t", "t", "e", "n", "t", "i", "o", "n", " ", "I", "s", " ", "A", "l", "l", " ", "Y", "o", "u", " ", "N", "e", "e", "d", ".", " ", "N", "e", "u", "r", "I", "P", "S", ".">>))
        /\ (ct.title = StrV(Lit(<<"X">>)) /\ ct.authors = <<>> /\ ct.year = NoneV
            /\ ct.venue = NoneV) =>
              ct.citation = StrV(Lit(<<"U", "n", "k", "n", "o", "w", "n", ".", " ", "X", ".">>))

\* C9's case: the citation of the four-author example has been formatted.
C9_Witness ==
    /\ ct.stage = "done"
    /\ ct.title = StrV(TAttention) /\ ct.authors = ABCD /\ ct.year = IntV(2017)
    /\ ct.venue = StrV(TNeurIPS)
    /\ ct.citation # NoneV

\* C10: when the token or the database identifier is not on the command
\* line, the program ends in a usage error before any page query, lookup or
\* write is issued.
C10_MissingArgumentIsUsageError ==
    (cli.database_id = <<>> \/ cli.notion_token = <<>>) =>
        /\ proc.pc \in {"start", "usage_error"}
        /\ proc.queries = 0 /\ proc.lookups = <<>> /\ proc.writes = <<>>

=============================================================================
